---------------------------- MODULE Spec2Model ----------------------------
(***************************************************************************)
(* Model of the tunnel server's HTTP front end                              *)
(* (tunnel-server/src/app.ts): the request/upgrade dispatcher of the       *)
(* serverFactory, the /profiles/:profileId/tunnels handler, the /healthz   *)
(* handler and the /login handler.                                          *)
(*                                                                          *)
(* Strings are sequences of characters.  A character is a TLA+ string:     *)
(* either a punctuation character ("/", "&", ...) or an alphanumeric word  *)
(* ("auth", "login", "e1", "2F", ...) that no conversion ever splits.      *)
(***************************************************************************)
EXTENDS Naturals, Integers, Sequences, FiniteSets, TLC

\* ------------------------------------------------------------------ bounds

\* Longest returnPath a client sends in the one-request-at-a-time
\* specification SpecSeq.
MaxPathLen == 3

\* --------------------------------------------------------- string helpers

None == "none"

\* An optional value: Nothing (undefined), or Some(v).
Nothing == <<>>
Some(v) == <<v>>
IsSome(o) == o # <<>>
The(o) == o[1]

RECURSIVE IndexFrom(_, _, _)
IndexFrom(s, cs, i) ==
  IF i > Len(s) THEN 0
  ELSE IF s[i] \in cs THEN i
  ELSE IndexFrom(s, cs, i + 1)

\* First position of a character of cs in s, 0 when there is none.
IndexOf(s, cs) == IndexFrom(s, cs, 1)

Take(s, n) == SubSeq(s, 1, n)
Drop(s, n) == SubSeq(s, n + 1, Len(s))

\* s.split(c)[0]
BeforeFirst(s, cs) ==
  LET i == IndexOf(s, cs) IN IF i = 0 THEN s ELSE Take(s, i - 1)

\* What follows the first occurrence, or the empty string.
AfterFirst(s, cs) ==
  LET i == IndexOf(s, cs) IN IF i = 0 THEN <<>> ELSE Drop(s, i)

RECURSIVE Split(_, _)
Split(s, c) ==
  LET i == IndexOf(s, {c})
  IN  IF i = 0 THEN <<s>> ELSE <<Take(s, i - 1)>> \o Split(Drop(s, i), c)

StartsWith(s, c) == Len(s) > 0 /\ s[1] = c

RECURSIVE Without(_, _)
Without(s, cs) ==
  IF s = <<>> THEN <<>>
  ELSE IF s[1] \in cs THEN Without(Tail(s), cs)
  ELSE <<s[1]>> \o Without(Tail(s), cs)

RECURSIVE SkipWhile(_, _)
SkipWhile(s, cs) ==
  IF s # <<>> /\ s[1] \in cs THEN SkipWhile(Tail(s), cs) ELSE s

\* ---------------------------------------------------- percent encoding

Tab == "\t"

\* The punctuation characters of the model and their two-digit hex codes.
HexOf ==
  [c \in {"/", "\\", Tab, "&", "%", "=", "?", ":", "+", " ", "@", "#"} |->
     CASE c = "/"  -> "2F"
       [] c = "\\" -> "5C"
       [] c = Tab  -> "09"
       [] c = "&"  -> "26"
       [] c = "%"  -> "25"
       [] c = "="  -> "3D"
       [] c = "?"  -> "3F"
       [] c = ":"  -> "3A"
       [] c = "+"  -> "2B"
       [] c = " "  -> "20"
       [] c = "@"  -> "40"
       [] c = "#"  -> "23"]

Escaped == DOMAIN HexOf

UnHex(h) == CHOOSE c \in Escaped : HexOf[c] = h

IsHex(h) == \E c \in Escaped : HexOf[c] = h

\* encodeURIComponent: words and "." are unreserved, everything else is
\* escaped as "%" followed by its hex code.
RECURSIVE encodeURIComponent(_)
encodeURIComponent(s) ==
  IF s = <<>> THEN <<>>
  ELSE (IF s[1] \in Escaped THEN <<"%", HexOf[s[1]]>> ELSE <<s[1]>>)
         \o encodeURIComponent(Tail(s))

\* The application/x-www-form-urlencoded serializer of URLSearchParams: as
\* above, but a space becomes "+".
RECURSIVE FormEncode(_)
FormEncode(s) ==
  IF s = <<>> THEN <<>>
  ELSE (IF s[1] = " " THEN <<"+">>
        ELSE IF s[1] \in Escaped THEN <<"%", HexOf[s[1]]>>
        ELSE <<s[1]>>)
         \o FormEncode(Tail(s))

\* The application/x-www-form-urlencoded parser's decoding of one name or
\* value: "+" is a space, "%XX" is the escaped character, a "%" that starts
\* no escape stays.
RECURSIVE FormDecode(_)
FormDecode(s) ==
  IF s = <<>> THEN <<>>
  ELSE IF s[1] = "+" THEN <<" ">> \o FormDecode(Tail(s))
  ELSE IF s[1] = "%" /\ Len(s) >= 2 /\ IsHex(s[2])
       THEN <<UnHex(s[2])>> \o FormDecode(Drop(s, 2))
  ELSE <<s[1]>> \o FormDecode(Tail(s))

\* new URLSearchParams({env, returnPath}).toString()
SearchParams(pairs) ==
  LET One(p) == FormEncode(p[1]) \o <<"=">> \o FormEncode(p[2])
      RECURSIVE Join(_)
      Join(ps) == IF ps = <<>> THEN <<>>
                  ELSE IF Len(ps) = 1 THEN One(ps[1])
                  ELSE One(ps[1]) \o <<"&">> \o Join(Tail(ps))
  IN  Join(pairs)

\* The value of parameter name in a query string (what a receiver of the
\* URL reads), Nothing when the parameter is absent.
QueryParam(query, name) ==
  LET parts == Split(query, "&")
      hits  == {i \in 1..Len(parts) : FormDecode(BeforeFirst(parts[i], {"="})) = name}
  IN  IF hits = {} THEN Nothing
      ELSE LET i == CHOOSE k \in hits : \A j \in hits : k <= j
           IN  Some(FormDecode(AfterFirst(parts[i], {"="})))

\* ------------------------------------------------------------------ URLs

\* A parsed URL (the WHATWG URL record, reduced to what app.ts touches).
Url(scheme, hostname, port, pathname, search) ==
  [scheme |-> scheme, hostname |-> hostname, port |-> port,
   pathname |-> pathname, search |-> search]

\* URL.prototype.toString
UrlToString(u) ==
  <<u.scheme, ":", "/", "/">> \o u.hostname
    \o (IF u.port = <<>> THEN <<>> ELSE <<":">> \o u.port)
    \o u.pathname
    \o (IF u.search = <<>> THEN <<>> ELSE <<"?">> \o u.search)

\* The parts of an absolute URL string, as a receiver parses it.
AfterScheme(str) == Drop(str, 4)
UrlHostname(str) == BeforeFirst(AfterScheme(str), {":", "/", "\\", "?", "#"})
UrlPathname(str) ==
  LET rest == AfterScheme(str)
      i    == IndexOf(rest, {"/", "\\", "?", "#"})
  IN  IF i = 0 THEN <<"/">> ELSE BeforeFirst(Drop(rest, i - 1), {"?", "#"})
UrlSearch(str)   == BeforeFirst(AfterFirst(str, {"?"}), {"#"})
UrlOrigin(str)   ==
  Take(str, 4) \o BeforeFirst(AfterScheme(str), {"/", "\\", "?", "#"})


\* Characters the host parser rejects (forbidden domain code points).
ForbiddenHostChars == {"%", " ", "#", "<", ">", "[", "]", "^", "|"}

Contains(s, cs) == IndexOf(s, cs) # 0

RECURSIVE SlashesOf(_)
\* The path state writes "\" of a special URL as "/".
SlashesOf(s) ==
  IF s = <<>> THEN <<>>
  ELSE <<IF s[1] = "\\" THEN "/" ELSE s[1]>> \o SlashesOf(Tail(s))

RECURSIVE AfterLast(_, _)
AfterLast(s, c) ==
  IF Contains(s, {c}) THEN AfterLast(AfterFirst(s, {c}), c) ELSE s

UrlPathOf(s) ==
  LET p == SlashesOf(BeforeFirst(s, {"?", "#"}))
  IN  IF p = <<>> THEN <<"/">> ELSE p

UrlSearchOf(s) ==
  LET i == IndexOf(s, {"?", "#"})
  IN  IF i # 0 /\ s[i] = "?" THEN BeforeFirst(Drop(s, i), {"#"}) ELSE <<>>

\* new URL(input, base) for an input that starts with "/" and a base with
\* a special scheme (the WHATWG basic URL parser: no-scheme state, relative
\* state, relative slash state, then either the authority states or the
\* path state).  The result is Some(URL record), or Nothing: a TypeError.
NewUrlRelative(input, base) ==
  LET s == Without(input, {Tab})   \* ASCII tab and newline are removed first
  IN  IF Len(s) >= 2 /\ s[2] \in {"/", "\\"}
      THEN \* special authority ignore slashes state, authority state
           LET rest      == SkipWhile(Drop(s, 2), {"/", "\\"})
               authority == BeforeFirst(rest, {"/", "\\", "?", "#"})
               after     == Drop(rest, Len(authority))
               hostport  == AfterLast(authority, "@")
               host      == BeforeFirst(hostport, {":"})
               port      == AfterFirst(hostport, {":"})
           IN  IF host = <<>> \/ Contains(host, ForbiddenHostChars)
                  \/ port # <<>>   \* no digit among the model's characters
               THEN Nothing
               ELSE Some(Url(base.scheme, host, <<>>,
                             UrlPathOf(after), UrlSearchOf(after)))
      ELSE \* path state: the base's host and port are kept
           Some(Url(base.scheme, base.hostname, base.port,
                    UrlPathOf(s), UrlSearchOf(s)))

\* ------------------------------------------------------ configuration

\* baseUrl, the gateway's own URL.
baseUrl == Url("https", <<"base">>, <<>>, <<"/">>, <<>>)

baseHostname == baseUrl.hostname
authHostname == <<"auth", ".">> \o baseHostname
apiHostname  == <<"api", ".">> \o baseHostname

\* The value of saasBaseUrl when a secondary identity provider is configured.
IdpBaseUrl == <<"https", ":", "/", "/", "idp", ".", "example">>

\* editUrl(url, {hostname, queryParams, path}): the URL with its hostname,
\* its path and its query parameters replaced by the ones given.
\* Each of the three is optional.
editUrl(url, hostname, queryParams, path) ==
  Url(url.scheme,
      IF IsSome(hostname) THEN The(hostname) ELSE url.hostname,
      url.port,
      IF IsSome(path) THEN The(path) ELSE url.pathname,
      IF IsSome(queryParams) THEN SearchParams(The(queryParams)) ELSE url.search)

\* buildLoginUrl({baseUrl, env, returnPath}); returnPath is optional, and an
\* empty one is left out like an absent one.
buildLoginUrl(base, env, returnPath) ==
  UrlToString(
    editUrl(base,
            Some(<<"auth", ".">> \o base.hostname),
            Some(<<<<(<<"env">>), env>>>>
                   \o (IF IsSome(returnPath) /\ The(returnPath) # <<>>
                       THEN <<<<(<<"returnPath">>), The(returnPath)>>>>
                       ELSE <<>>)),
            Some(<<"/", "login">>)))

\* ------------------------------------------------------------- tenants

\* The environments, in the order the registry lists them.
EnvOrder == <<"e1", "e2", "e3">>

Envs == {EnvOrder[i] : i \in DOMAIN EnvOrder}

\* The public-key thumbprint of each environment's tenant: e1 and e2 are
\* tunnels of one tenant, e3 is another tenant's.
ThumbprintOf == [e \in Envs |-> IF e = "e3" THEN "tB" ELSE "tA"]

Thumbprints == {ThumbprintOf[e] : e \in Envs}

\* The ActiveTunnel record the registry holds for environment e.
ActiveTunnel(e) ==
  [envId               |-> e,
   hostname            |-> <<e, ".">> \o baseHostname,
   publicKey           |-> <<"key", ThumbprintOf[e]>>,
   publicKeyThumbprint |-> ThumbprintOf[e],
   access              |-> IF e = "e2" THEN "private" ELSE "public",
   meta                |-> <<"meta", e>>]

Users == {"u1"}

\* Claims: the identity, and the key the authenticator verified it against.
Claims == [user : Users, verifiedBy : Thumbprints]

\* ------------------------------------------------------------ inputs

\* Host header values: absent, the control-plane names, the same with a
\* port, a tenant's tunnel name, the bare base name, a name that is no name,
\* the empty string, and a name that only ends like a control-plane name.
Hosts ==
  {Nothing, Some(authHostname), Some(apiHostname),
   Some(authHostname \o <<":", "443">>),
   Some(<<"e1", ".">> \o baseHostname), Some(baseHostname), Some(<<":", "443">>),
   Some(<<>>), Some(<<"x", ".">> \o apiHostname)}

PathChars == {"/", "\\", "x", "&", "%"}

RECURSIVE StringsUpTo(_, _)
StringsUpTo(cs, n) ==
  IF n = 0 THEN {<<>>}
  ELSE LET shorter == StringsUpTo(cs, n - 1)
       IN  shorter \cup {Append(s, c) : s \in shorter, c \in cs}

Proxied == {"claim", "decline", "throw"}

\* A request's URL, as the router reads it: the route and its parameters
\* (env and returnPath are optional strings, profileId is a thumbprint).
LoginUrl(env, returnPath) ==
  [route |-> "login", env |-> env, returnPath |-> returnPath, profileId |-> None]
TunnelsUrl(profileId) ==
  [route |-> "tunnels", env |-> Nothing, returnPath |-> Nothing,
   profileId |-> profileId]
PlainUrl(route) ==
  [route |-> route, env |-> Nothing, returnPath |-> Nothing, profileId |-> None]

Sent(host, url) == [host |-> host, url |-> url]

\* What clients send when the server handles one exchange at a time: every
\* host with every route, and every returnPath up to MaxPathLen on the
\* login route.
SeqUrls ==
  {LoginUrl(e, p) :
     e \in {Some(<<x>>) : x \in Envs} \cup {Nothing},
     p \in {Nothing, Some(<<>>), Some(<<"x">>), Some(<<"/", "x">>)}}
    \cup {TunnelsUrl(t) : t \in Thumbprints \cup {"tX"}}
    \cup {PlainUrl("healthz"), PlainUrl("other")}
SeqRequests ==
  {Sent(h, u) : h \in Hosts, u \in SeqUrls}
    \cup {Sent(Some(authHostname), LoginUrl(Some(<<"e1">>), Some(p))) :
            p \in StringsUpTo(PathChars, MaxPathLen)}
SeqUpgrades ==
  {Sent(h, u) : h \in Hosts, u \in {PlainUrl("other"), PlainUrl("healthz")}}

\* What clients send when exchanges are in flight together.
ConcHosts == {Some(authHostname), Some(<<"e1", ".">> \o baseHostname)}
ConcRequests ==
  {Sent(h, u) : h \in ConcHosts,
                u \in {LoginUrl(Some(<<"e1">>), Nothing), LoginUrl(Some(<<"e3">>), Nothing),
                       TunnelsUrl("tA"), PlainUrl("healthz")}}
ConcUpgrades ==
  {Sent(h, LoginUrl(Some(<<"e1">>), Nothing)) : h \in ConcHosts}

\* ------------------------------------------------------------- state

Conns == {"c1", "c2"}

VARIABLES
  activeTunnelStore,  \* the registry: the environments with an active tunnel
  sessionStore,       \* the browser's persisted session claims, per thumbprint
  saasBaseUrl,        \* configuration: the identity provider's base URL, optional
  conn                \* per connection: the request or upgrade it carries

vars == <<activeTunnelStore, sessionStore, saasBaseUrl, conn>>

\* Response bodies.
NoBody         == [type |-> None,    text |-> "",   list |-> <<>>]
TextBody(t)    == [type |-> "text",  text |-> t,    list |-> <<>>]
ErrorBody(msg) == [type |-> "error", text |-> msg,  list |-> <<>>]
ListBody(l)    == [type |-> "list",  text |-> "",   list |-> l]

Response(status, body, location, acao) ==
  [status |-> status, body |-> body, location |-> location, acao |-> acao]

NoResponse == Response(0, NoBody, Nothing, Nothing)

Idle ==
  [pc |-> "idle", kind |-> None, host |-> Nothing, url |-> PlainUrl("other"),
   traced |-> FALSE, classified |-> None, routeRequest |-> 0, routeUpgrade |-> 0, handledBy |-> {},
   socket |-> None, thrown |-> FALSE,
   lookups |-> 0, tunnel |-> Nothing, tunnels |-> <<>>,
   sessionKey |-> None, sessionAtOpen |-> Nothing, sessionUser |-> Nothing,
   authFrom |-> <<>>, authCalls |-> 0, verdict |-> Nothing,
   setCalls |-> <<>>, saveCalls |-> 0, save |-> None,
   res |-> NoResponse]

Init ==
  /\ activeTunnelStore \in SUBSET Envs
  /\ sessionStore = [t \in Thumbprints |-> Nothing]
  /\ saasBaseUrl \in {Nothing, Some(IdpBaseUrl)}
  /\ conn = [c \in Conns |-> Idle]

\* ------------------------------------------------------- dispatcher

\* isNonProxyRequest comparing the whole Host header, port and all.
isNonProxyRequestWholeHeader(host) ==
  host = Some(authHostname) \/ host = Some(apiHostname)

\* isNonProxyRequest: headers.host?.split(':')?.[0] is auth.<base> or
\* api.<base>.
isNonProxyRequest(host) ==
  LET name == IF IsSome(host) THEN Some(BeforeFirst(The(host), {":"})) ELSE Nothing
  IN  name = Some(authHostname) \/ name = Some(apiHostname)

\* The classifier's two answers, as the dispatcher takes them.
Classify(host) == IF isNonProxyRequest(host) THEN "control-plane" ELSE "tunnel-traffic"

Respond(rec, res) == [rec EXCEPT !.pc = "done", !.res = res]

\* LoginEntry without the returnPath check.
LoginEntryUnchecked(rec) ==
  IF ~IsSome(rec.url.env)
  THEN Respond(rec, Response(400, ErrorBody("querystring must have required property 'env'"),
                             Nothing, Nothing))
  ELSE [rec EXCEPT !.pc = "awaitTunnel", !.lookups = @ + 1]

\* The handler's start, up to `await activeTunnelStore.get(envId)`; the
\* route's schema rejects a query without env before the handler runs.
LoginEntry(rec) ==
  LET returnPath == IF IsSome(rec.url.returnPath) THEN The(rec.url.returnPath)
                    ELSE <<"/">>
  IN  IF ~IsSome(rec.url.env)
      THEN Respond(rec, Response(400, ErrorBody("querystring must have required property 'env'"),
                                 Nothing, Nothing))
      ELSE IF ~StartsWith(returnPath, "/")
      THEN Respond(rec, Response(400, ErrorBody("returnPath must be a relative path"),
                                 Nothing, Nothing))
      ELSE [rec EXCEPT !.pc = "awaitTunnel", !.lookups = @ + 1]

\* The handler's start, up to `await activeTunnelStore.getByPkThumbprint`.
TunnelsEntry(rec) == [rec EXCEPT !.pc = "awaitTunnels", !.lookups = @ + 1]

\* handler(req, res): the control-plane router and the start of the route's
\* handler.
ControlPlane(rec) ==
  LET r == [rec EXCEPT !.handledBy = @ \cup {"controlPlane"}]
  IN  CASE r.url.route = "healthz" ->
             Respond(r, Response(200, TextBody("OK"), Nothing, Nothing))
        [] r.url.route = "tunnels" -> TunnelsEntry(r)
        [] r.url.route = "login"   -> LoginEntry(r)
        [] OTHER ->
             Respond(r, Response(404, ErrorBody("Not Found"), Nothing, Nothing))

\* RequestListener asking the proxy before it looks at the host.
RequestListenerProxyFirst(host, url, answer) ==
  LET rec   == [Idle EXCEPT !.kind = "request", !.host = host, !.url = url,
                            !.traced = (url.route # "healthz"),
                            !.classified = Classify(host)]
      asked == [rec EXCEPT !.routeRequest = @ + 1]
  IN  CASE answer = "throw" -> [asked EXCEPT !.pc = "done", !.thrown = TRUE]
        [] answer = "claim" /\ rec.classified # "control-plane" ->
             [asked EXCEPT !.pc = "done",
                           !.handledBy = @ \cup {"proxyRequestHandler"}]
        [] OTHER -> ControlPlane(asked)

\* The 'request' listener.  answer is what proxy.routeRequest does when it
\* is asked: it returns a handler, returns nothing, or throws.
RequestListener(host, url, answer) ==
  LET rec == [Idle EXCEPT !.kind = "request", !.host = host, !.url = url,
                          !.traced = (url.route # "healthz"),
                          !.classified = Classify(host)]
  IN  IF rec.classified = "control-plane" THEN ControlPlane(rec)
      ELSE LET asked == [rec EXCEPT !.routeRequest = @ + 1]
           IN  CASE answer = "throw" -> [asked EXCEPT !.pc = "done", !.thrown = TRUE]
                 [] answer = "claim" ->
                      [asked EXCEPT !.pc = "done",
                                    !.handledBy = @ \cup {"proxyRequestHandler"}]
                 [] OTHER -> ControlPlane(asked)

\* UpgradeListener asking proxy.routeRequest instead of proxy.routeUpgrade.
UpgradeListenerViaRouteRequest(host, url, answer) ==
  LET rec == [Idle EXCEPT !.kind = "upgrade", !.host = host, !.url = url,
                          !.traced = TRUE, !.classified = Classify(host)]
      end == [rec EXCEPT !.pc = "done", !.socket = "Not found"]
  IN  IF rec.classified = "control-plane" THEN end
      ELSE LET asked == [rec EXCEPT !.routeRequest = @ + 1]
           IN  CASE answer = "throw" -> [asked EXCEPT !.pc = "done", !.thrown = TRUE]
                 [] answer = "claim" ->
                      [asked EXCEPT !.pc = "done",
                                    !.handledBy = @ \cup {"proxyRequestHandler"}]
                 [] OTHER -> [asked EXCEPT !.pc = "done", !.socket = "Not found"]

\* UpgradeListener handing a declined upgrade to the control-plane handler,
\* as the 'request' listener does with a declined request.
UpgradeListenerFallsThrough(host, url, answer) ==
  LET rec == [Idle EXCEPT !.kind = "upgrade", !.host = host, !.url = url,
                          !.traced = TRUE, !.classified = Classify(host)]
      end == [rec EXCEPT !.pc = "done", !.socket = "Not found"]
  IN  IF rec.classified = "control-plane" THEN end
      ELSE LET asked == [rec EXCEPT !.routeUpgrade = @ + 1]
           IN  CASE answer = "throw" -> [asked EXCEPT !.pc = "done", !.thrown = TRUE]
                 [] answer = "claim" ->
                      [asked EXCEPT !.pc = "done",
                                    !.handledBy = @ \cup {"proxyUpgradeHandler"}]
                 [] OTHER -> ControlPlane(asked)

\* The 'upgrade' listener.  socket.end('Not found') writes the payload and
\* closes the socket: socket holds what was written to a socket so closed.
UpgradeListener(host, url, answer) ==
  LET rec == [Idle EXCEPT !.kind = "upgrade", !.host = host, !.url = url,
                          !.traced = TRUE, !.classified = Classify(host)]
      end == [rec EXCEPT !.pc = "done", !.socket = "Not found"]
  IN  IF rec.classified = "control-plane" THEN end
      ELSE LET asked == [rec EXCEPT !.routeUpgrade = @ + 1]
           IN  CASE answer = "throw" -> [asked EXCEPT !.pc = "done", !.thrown = TRUE]
                 [] answer = "claim" ->
                      [asked EXCEPT !.pc = "done",
                                    !.handledBy = @ \cup {"proxyUpgradeHandler"}]
                 [] OTHER -> [asked EXCEPT !.pc = "done", !.socket = "Not found"]

\* A request, one of sent, arrives on idle connection c.
HttpRequest(c, sent) ==
  /\ conn[c].pc = "idle"
  /\ \E m \in sent, answer \in Proxied :
       conn' = [conn EXCEPT ![c] = RequestListener(m.host, m.url, answer)]
  /\ UNCHANGED <<activeTunnelStore, sessionStore, saasBaseUrl>>

\* An upgrade request, one of sent, arrives on idle connection c.
Upgrade(c, sent) ==
  /\ conn[c].pc = "idle"
  /\ \E m \in sent, answer \in Proxied :
       conn' = [conn EXCEPT ![c] = UpgradeListener(m.host, m.url, answer)]
  /\ UNCHANGED <<activeTunnelStore, sessionStore, saasBaseUrl>>

\* ------------------------------------------------------------ /login

\* returnPath, with its default.
ReturnPathOf(rec) ==
  IF IsSome(rec.url.returnPath) THEN The(rec.url.returnPath) ELSE <<"/">>

\* activeTunnelStore.get(envId): the entry, if the environment has a tunnel.
StoreGet(reg, envId) ==
  LET hit == {e \in reg : <<e>> = envId}
  IN  IF hit = {} THEN Nothing ELSE Some(ActiveTunnel(CHOOSE e \in hit : TRUE))

\* The last statement of the handler: res.redirect(new URL(returnPath,
\* editUrl(baseUrl, {hostname: `${envId}.${baseUrl.hostname}`})).toString()).
\* A TypeError of new URL rejects the handler, which the framework answers
\* with status 500.
RedirectToTenant(rec) ==
  LET envId  == The(rec.url.env)
      base   == editUrl(baseUrl, Some(envId \o <<".">> \o baseUrl.hostname),
                        Nothing, Nothing)
      target == NewUrlRelative(ReturnPathOf(rec), base)
  IN  IF IsSome(target)
      THEN Respond(rec, Response(302, NoBody, Some(UrlToString(The(target))), Nothing))
      ELSE Respond(rec, Response(500, ErrorBody("Invalid URL"), Nothing, Nothing))

\* LoginOpenSession opening one session for the browser, whatever the
\* tunnel's thumbprint.
LoginOpenSessionOnePerBrowser(rec, entry, sessions) ==
  LET activeTunnel == The(entry)
      key          == "tA"
      opened       == [rec EXCEPT !.tunnel = entry, !.sessionKey = key,
                                  !.sessionAtOpen = sessions[key],
                                  !.sessionUser = sessions[key]]
  IN  IF IsSome(opened.sessionUser) THEN RedirectToTenant(opened)
      ELSE [opened EXCEPT !.pc = "awaitAuth",
                          !.authFrom = Append(@, activeTunnel),
                          !.authCalls = @ + 1]

\* LoginOpenSession with the test of session.user inverted.
LoginOpenSessionInverted(rec, entry, sessions) ==
  LET activeTunnel == The(entry)
      key          == activeTunnel.publicKeyThumbprint
      opened       == [rec EXCEPT !.tunnel = entry, !.sessionKey = key,
                                  !.sessionAtOpen = sessions[key],
                                  !.sessionUser = sessions[key]]
  IN  IF ~IsSome(opened.sessionUser) THEN RedirectToTenant(opened)
      ELSE [opened EXCEPT !.pc = "awaitAuth",
                          !.authFrom = Append(@, activeTunnel),
                          !.authCalls = @ + 1]

\* From the session's opening up to `await auth(req.raw)`, for the tunnel
\* found: sessionStore(req.raw, res.raw, thumbprint), then either the final
\* redirect or authFactory(activeTunnel) and the call of the authenticator.
LoginOpenSession(rec, entry, sessions) ==
  LET activeTunnel == The(entry)
      key          == activeTunnel.publicKeyThumbprint
      opened       == [rec EXCEPT !.tunnel = entry, !.sessionKey = key,
                                  !.sessionAtOpen = sessions[key],
                                  !.sessionUser = sessions[key]]
  IN  IF IsSome(opened.sessionUser) THEN RedirectToTenant(opened)
      ELSE [opened EXCEPT !.pc = "awaitAuth",
                          !.authFrom = Append(@, activeTunnel),
                          !.authCalls = @ + 1]

\* LoginResolved answering an unknown environment like a failed login.
LoginResolvedUnknownAs401(rec, entry, sessions) ==
  IF ~IsSome(entry)
  THEN Respond(rec, Response(401, ErrorBody("Unauthorized"), Nothing, Nothing))
  ELSE LoginOpenSession(rec, entry, sessions)

\* After `await activeTunnelStore.get(envId)`, up to `await auth(req.raw)`.
LoginResolved(rec, entry, sessions) ==
  IF ~IsSome(entry)
  THEN Respond(rec, Response(404, ErrorBody("unknown envId"), Nothing, Nothing))
  ELSE LoginOpenSession(rec, entry, sessions)

\* TunnelStoreGet answering one lookup at a time: a lookup waits while
\* another exchange is with a collaborator.
TunnelStoreGetOneAtATime(c) ==
  /\ conn[c].pc = "awaitTunnel"
  /\ \A d \in Conns \ {c} : conn[d].pc \in {"idle", "done"}
  /\ conn' = [conn EXCEPT ![c] =
                LoginResolved(conn[c], StoreGet(activeTunnelStore, The(conn[c].url.env)), sessionStore)]
  /\ UNCHANGED <<activeTunnelStore, sessionStore, saasBaseUrl>>

TunnelStoreGet(c) ==
  /\ conn[c].pc = "awaitTunnel"
  /\ conn' = [conn EXCEPT ![c] =
                LoginResolved(conn[c], StoreGet(activeTunnelStore, The(conn[c].url.env)), sessionStore)]
  /\ UNCHANGED <<activeTunnelStore, sessionStore, saasBaseUrl>>

\* What an authenticator built from tunnel can answer.
AuthResults(tunnel) ==
  {[isAuthenticated |-> FALSE, claims |-> Nothing]}
    \cup {[isAuthenticated |-> TRUE, claims |-> Some(cl)] :
            cl \in {x \in Claims : x.verifiedBy = tunnel.publicKeyThumbprint}}

\* IdpRedirect without encodeURIComponent around the login URL.
IdpRedirectUnencoded(rec, saas) ==
  Respond(rec,
    Response(302, NoBody,
             Some(saas \o <<"/", "api", "/", "auth", "/", "login", "?", "redirectTo", "=">>
                    \o buildLoginUrl(baseUrl, The(rec.url.env), Some(ReturnPathOf(rec)))),
             Some(saas)))

\* The redirect to the identity provider.
IdpRedirect(rec, saas) ==
  Respond(rec,
    Response(302, NoBody,
             Some(saas \o <<"/", "api", "/", "auth", "/", "login", "?", "redirectTo", "=">>
                    \o encodeURIComponent(
                         buildLoginUrl(baseUrl, The(rec.url.env), Some(ReturnPathOf(rec))))),
             Some(saas)))

\* LoginAuthenticated whose 401 branch does not return: the handler goes on
\* to the final redirect.
LoginAuthenticatedNoReturn(rec, result, saas, saved) ==
  IF ~result.isAuthenticated
  THEN IF IsSome(saas)
       THEN IdpRedirect([rec EXCEPT !.verdict = Some(result)], The(saas))
       ELSE RedirectToTenant([rec EXCEPT !.verdict = Some(result)])
  ELSE RedirectToTenant(
         [rec EXCEPT !.verdict = Some(result),
                     !.setCalls = Append(@, The(result.claims)),
                     !.sessionUser = result.claims,
                     !.saveCalls = @ + 1,
                     !.save = IF saved THEN "done" ELSE "pending"])

\* After `await auth(req.raw)`.  saved tells whether session.save() has made
\* the claims durable by the time it returns.
LoginAuthenticated(rec, result, saas, saved) ==
  IF ~result.isAuthenticated
  THEN IF IsSome(saas)
       THEN IdpRedirect([rec EXCEPT !.verdict = Some(result)], The(saas))
       ELSE Respond([rec EXCEPT !.verdict = Some(result)],
                    Response(401, ErrorBody("Unauthorized"), Nothing, Nothing))
  ELSE RedirectToTenant(
         [rec EXCEPT !.verdict = Some(result),
                     !.setCalls = Append(@, The(result.claims)),
                     !.sessionUser = result.claims,
                     !.saveCalls = @ + 1,
                     !.save = IF saved THEN "done" ELSE "pending"])

AuthReturn(c) ==
  /\ conn[c].pc = "awaitAuth"
  /\ \E result \in AuthResults(The(conn[c].tunnel)), saved \in BOOLEAN :
       LET rec == LoginAuthenticated(conn[c], result, saasBaseUrl, saved)
       IN  /\ conn' = [conn EXCEPT ![c] = rec]
           /\ sessionStore' = IF rec.save = "done"
                         THEN [sessionStore EXCEPT ![rec.sessionKey] = rec.sessionUser]
                         ELSE sessionStore
  /\ UNCHANGED <<activeTunnelStore, saasBaseUrl>>

\* The promise of session.save() resolves: the claims are durable.
SaveComplete(c) ==
  /\ conn[c].save = "pending"
  /\ sessionStore' = [sessionStore EXCEPT ![conn[c].sessionKey] = conn[c].sessionUser]
  /\ conn' = [conn EXCEPT ![c].save = "done"]
  /\ UNCHANGED <<activeTunnelStore, saasBaseUrl>>

\* ------------------------------------------- /profiles/:profileId/tunnels

\* activeTunnelStore.getByPkThumbprint(profileId)
StoreGetByPkThumbprint(reg, profileId) ==
  LET Match(e) == e \in reg /\ ThumbprintOf[e] = profileId
      envs     == SelectSeq(EnvOrder, Match)
  IN  [i \in DOMAIN envs |-> ActiveTunnel(envs[i])]

\* Projection sending the registry's records as they are.
ProjectionWhole(tunnels) == tunnels

\* tunnels.map(t => ({envId, hostname, access, meta}))
Projection(tunnels) ==
  [i \in DOMAIN tunnels |->
     [envId |-> tunnels[i].envId, hostname |-> tunnels[i].hostname,
      access |-> tunnels[i].access, meta |-> tunnels[i].meta]]

\* TunnelsResolved answering a profile without tunnels with 404.
TunnelsResolvedEmptyAs404(rec, tunnels) ==
  IF Len(tunnels) = 0
  THEN Respond(rec, Response(404, ErrorBody("Not Found"), Nothing, Nothing))
  ELSE [rec EXCEPT !.pc = "awaitProfileAuth", !.tunnels = tunnels,
                   !.authFrom = Append(@, tunnels[1]), !.authCalls = @ + 1]

\* After `await getByPkThumbprint(profileId)`, up to `await auth(req.raw)`.
TunnelsResolved(rec, tunnels) ==
  IF Len(tunnels) = 0
  THEN Respond(rec, Response(200, ListBody(<<>>), Nothing, Nothing))
  ELSE [rec EXCEPT !.pc = "awaitProfileAuth", !.tunnels = tunnels,
                   !.authFrom = Append(@, tunnels[1]), !.authCalls = @ + 1]

\* TunnelsAuthenticated staging and saving the verdict's claims, as the
\* login handler does.
TunnelsAuthenticatedSaving(rec, result) ==
  IF ~result.isAuthenticated
  THEN Respond([rec EXCEPT !.verdict = Some(result)],
               Response(401, TextBody("Unauthenticated"), Nothing, Nothing))
  ELSE Respond([rec EXCEPT !.verdict = Some(result),
                           !.setCalls = Append(@, The(result.claims)),
                           !.saveCalls = @ + 1],
               Response(200, ListBody(Projection(rec.tunnels)), Nothing, Nothing))

\* After `await auth(req.raw)`.
TunnelsAuthenticated(rec, result) ==
  IF ~result.isAuthenticated
  THEN Respond([rec EXCEPT !.verdict = Some(result)],
               Response(401, TextBody("Unauthenticated"), Nothing, Nothing))
  ELSE Respond([rec EXCEPT !.verdict = Some(result)],
               Response(200, ListBody(Projection(rec.tunnels)), Nothing, Nothing))

TunnelStoreGetByPk(c) ==
  /\ conn[c].pc = "awaitTunnels"
  /\ conn' = [conn EXCEPT ![c] =
                TunnelsResolved(conn[c],
                                StoreGetByPkThumbprint(activeTunnelStore, conn[c].url.profileId))]
  /\ UNCHANGED <<activeTunnelStore, sessionStore, saasBaseUrl>>

ProfileAuthReturn(c) ==
  /\ conn[c].pc = "awaitProfileAuth"
  /\ \E result \in AuthResults(conn[c].tunnels[1]) :
       conn' = [conn EXCEPT ![c] = TunnelsAuthenticated(conn[c], result)]
  /\ UNCHANGED <<activeTunnelStore, sessionStore, saasBaseUrl>>

\* ------------------------------------------------------- environment

\* A tenant's tunnel connects or disconnects (the registry's own doing).
TunnelConnect(e) ==
  /\ e \notin activeTunnelStore
  /\ activeTunnelStore' = activeTunnelStore \cup {e}
  /\ UNCHANGED <<sessionStore, saasBaseUrl, conn>>

TunnelDisconnect(e) ==
  /\ e \in activeTunnelStore
  /\ activeTunnelStore' = activeTunnelStore \ {e}
  /\ UNCHANGED <<sessionStore, saasBaseUrl, conn>>

\* The exchange on a connection is over; the connection carries the next.
Close(c) ==
  /\ conn[c].pc = "done"
  /\ conn[c].save # "pending"
  /\ conn' = [conn EXCEPT ![c] = Idle]
  /\ UNCHANGED <<activeTunnelStore, sessionStore, saasBaseUrl>>

\* ----------------------------------------------------- specifications

Step(c) ==
  \/ TunnelStoreGet(c)
  \/ AuthReturn(c)
  \/ SaveComplete(c)
  \/ TunnelStoreGetByPk(c)
  \/ ProfileAuthReturn(c)
  \/ Close(c)

\* Requests and upgrades in flight together on the connections.
Next ==
  \/ \E c \in Conns : HttpRequest(c, ConcRequests)
  \/ \E c \in Conns : Upgrade(c, ConcUpgrades)
  \/ \E c \in Conns : Step(c)
  \/ \E e \in Envs : TunnelConnect(e)
  \/ \E e \in Envs : TunnelDisconnect(e)

Spec == Init /\ [][Next]_vars

\* One request at a time, over every shape of host and URL.
NextSeq ==
  \/ HttpRequest("c1", SeqRequests)
  \/ Upgrade("c1", SeqUpgrades)
  \/ Step("c1")
  \/ \E e \in Envs : TunnelConnect(e)
  \/ \E e \in Envs : TunnelDisconnect(e)

SpecSeq == Init /\ [][NextSeq]_vars

\* SpecSeq where every collaborator call returns and every handler segment
\* that can run does run.
SpecSeqFair == SpecSeq /\ WF_vars(Step("c1"))

\* What clients send while one login is held up: a login, a discovery, a
\* health probe to a tenant's hostname, and an upgrade to it.
StallRequests ==
  {Sent(Some(authHostname), LoginUrl(Some(<<"e1">>), Nothing)),
   Sent(Some(authHostname), TunnelsUrl("tA")),
   Sent(Some(<<"e1", ".">> \o baseHostname), PlainUrl("healthz"))}
StallUpgrades ==
  {Sent(Some(<<"e1", ".">> \o baseHostname), PlainUrl("other"))}

NextStall ==
  \/ \E c \in Conns : HttpRequest(c, StallRequests)
  \/ \E c \in Conns : Upgrade(c, StallUpgrades)
  \/ \E c \in Conns : Step(c)

\* Exchanges in flight together, where the collaborators always answer the
\* exchange on c2 and may leave the one on c1 without an answer for ever.
SpecStall == Init /\ [][NextStall]_vars /\ WF_vars(Step("c2"))

\* ------------------------------------------------------------- claims

Done(c) == conn[c].pc = "done"

\* Connection c carries a request that reached the /login handler.
IsLogin(c) ==
  /\ conn[c].kind = "request"
  /\ "controlPlane" \in conn[c].handledBy
  /\ conn[c].url.route = "login"
  /\ IsSome(conn[c].url.env)

\* Connection c carries a request that reached the tunnel discovery handler.
IsDiscovery(c) ==
  /\ conn[c].kind = "request"
  /\ "controlPlane" \in conn[c].handledBy
  /\ conn[c].url.route = "tunnels"

\* The authenticator answered on c, with this verdict.
Verdict(c, isAuthenticated) ==
  /\ IsSome(conn[c].verdict)
  /\ The(conn[c].verdict).isAuthenticated = isAuthenticated

\* c ended with the redirect that closes the login handler.
SuccessRedirect(c) ==
  /\ Done(c)
  /\ IsLogin(c)
  /\ conn[c].res.status = 302
  /\ IsSome(conn[c].sessionUser)

\* The tenant's tunnel hostname <env>.<base> of the login request on c.
TenantHostname(c) == The(conn[c].url.env) \o <<".">> \o baseHostname

\* C1: whenever a login request whose authenticator answered
\* isAuthenticated = true has issued its success redirect, the claims are
\* durable in the session store, so a request that follows the redirect
\* finds them.
C1_SavedBeforeRedirect ==
  \A c \in Conns :
    (SuccessRedirect(c) /\ Verdict(c, TRUE)) => IsSome(sessionStore[conn[c].sessionKey])

\* C2: the success redirect of a login request always targets the tenant's
\* tunnel hostname <env>.<base>, whatever accepted returnPath it carries.
C2_RedirectStaysOnTenant ==
  \A c \in Conns :
    SuccessRedirect(c) => UrlHostname(The(conn[c].res.location)) = TenantHostname(c)

\* No authenticator was built or called and no claims were staged or saved
\* on c.
NoAuthNoSession(rec) ==
  /\ rec.authFrom = <<>>
  /\ rec.authCalls = 0
  /\ rec.verdict = Nothing
  /\ rec.setCalls = <<>>
  /\ rec.saveCalls = 0
  /\ rec.save = None

NotFound404 == Response(404, ErrorBody("unknown envId"), Nothing, Nothing)

BadReturnPath(c) ==
  /\ IsLogin(c)
  /\ IsSome(conn[c].url.returnPath)
  /\ (The(conn[c].url.returnPath) = <<>> \/ The(conn[c].url.returnPath)[1] # "/")

\* C4: a login request whose returnPath does not start with "/" has ended
\* with 400 {error: 'returnPath must be a relative path'} as soon as the
\* handler has run, without asking the registry, whether or not env names an
\* active tunnel.
C4_BadReturnPathIs400 ==
  \A c \in Conns :
    BadReturnPath(c) =>
      /\ Done(c)
      /\ conn[c].res = Response(400, ErrorBody("returnPath must be a relative path"),
                                Nothing, Nothing)
      /\ conn[c].lookups = 0
      /\ NoAuthNoSession(conn[c])

C4_Witness ==
  \E c \in Conns :
    /\ BadReturnPath(c) /\ Done(c) /\ conn[c].res.status = 400
    /\ \E e \in activeTunnelStore : <<e>> = The(conn[c].url.env)
    /\ \E e \in Envs \ activeTunnelStore : TRUE

\* C5: when the registry answers a login request with a tunnel whose
\* thumbprint's session already holds claims, the request ends in that step
\* with a redirect to <env>.<base>, and no authenticator is built or called
\* and no claims are staged or saved.
C5_ReloginRedirectsToTenant ==
  [][\A c \in Conns :
       (/\ conn[c].pc = "awaitTunnel"
        /\ conn'[c] # conn[c]
        /\ \E e \in activeTunnelStore :
             <<e>> = The(conn[c].url.env) /\ IsSome(sessionStore[ThumbprintOf[e]]))
         => (/\ conn'[c].pc = "done"
             /\ NoAuthNoSession(conn'[c])
             /\ sessionStore' = sessionStore
             /\ conn'[c].res.status = 302
             /\ UrlHostname(The(conn'[c].res.location))
                  = The(conn[c].url.env) \o <<".">> \o baseHostname)]_vars

\* C6: a login request for a known env with no claims in the session, a
\* verdict of not authenticated and no identity provider configured ends
\* with 401 {error: 'Unauthorized'}, stages and saves nothing and leaves the
\* session store as it was; so does every repetition of it.
C6_Unauthorized401 ==
  /\ [](\A c \in Conns :
          (Done(c) /\ IsLogin(c) /\ Verdict(c, FALSE) /\ ~IsSome(saasBaseUrl))
            => (/\ conn[c].res = Response(401, ErrorBody("Unauthorized"), Nothing, Nothing)
                /\ conn[c].setCalls = <<>>
                /\ conn[c].saveCalls = 0
                /\ conn[c].save = None
                /\ ~IsSome(conn[c].sessionUser)))
  /\ [][\A c \in Conns :
          (/\ conn[c].pc = "awaitAuth"
           /\ conn'[c].pc = "done"
           /\ IsSome(conn'[c].verdict)
           /\ ~The(conn'[c].verdict).isAuthenticated
           /\ ~IsSome(saasBaseUrl))
            => (sessionStore' = sessionStore /\ conn'[c].res.status = 401)]_vars

\* Two connections carried the same login request, one after the other or
\* together, and both got the 401.
C6_Witness ==
  /\ ~IsSome(saasBaseUrl)
  /\ \A c \in Conns :
       /\ Done(c) /\ IsLogin(c) /\ Verdict(c, FALSE)
       /\ conn[c].res.status = 401
       /\ conn[c].url = conn["c1"].url
       /\ ~IsSome(sessionStore[conn[c].sessionKey])

\* The login URL a redirect to the identity provider asks to be sent back
\* to: the redirectTo parameter of its target, as the provider reads it.
RedirectBack(c) == QueryParam(UrlSearch(The(conn[c].res.location)), <<"redirectTo">>)

\* The returnPath the login handler on c works with.
EffectiveReturnPath(c) ==
  IF IsSome(conn[c].url.returnPath) THEN The(conn[c].url.returnPath) ELSE <<"/">>

\* C7: a login request for a known env with no claims in the session, a
\* verdict of not authenticated and an identity provider configured ends
\* with a redirect to /api/auth/login on the provider, whose redirectTo
\* parameter decodes to the gateway's login URL: hostname auth.<base>, path
\* /login, the same env and the same returnPath.  The response carries
\* Access-Control-Allow-Origin with the provider's origin; no claims are
\* staged or saved.
C7_RedirectToIdentityProvider ==
  \A c \in Conns :
    (Done(c) /\ IsLogin(c) /\ Verdict(c, FALSE) /\ IsSome(saasBaseUrl)) =>
      /\ conn[c].res.status = 302
      /\ IsSome(conn[c].res.location)
      /\ UrlOrigin(The(conn[c].res.location)) = UrlOrigin(The(saasBaseUrl))
      /\ UrlPathname(The(conn[c].res.location)) = <<"/", "api", "/", "auth", "/", "login">>
      /\ IsSome(RedirectBack(c))
      /\ UrlHostname(The(RedirectBack(c))) = <<"auth", ".">> \o baseHostname
      /\ UrlPathname(The(RedirectBack(c))) = <<"/", "login">>
      /\ QueryParam(UrlSearch(The(RedirectBack(c))), <<"env">>) = conn[c].url.env
      /\ QueryParam(UrlSearch(The(RedirectBack(c))), <<"returnPath">>)
           = Some(EffectiveReturnPath(c))
      /\ conn[c].res.acao = Some(UrlOrigin(The(saasBaseUrl)))
      /\ conn[c].setCalls = <<>>
      /\ conn[c].saveCalls = 0
      /\ ~IsSome(conn[c].sessionUser)

\* A redirect to the provider for a returnPath that holds "&".
C7_Witness ==
  \E c \in Conns :
    /\ Done(c) /\ IsLogin(c) /\ Verdict(c, FALSE) /\ IsSome(saasBaseUrl)
    /\ conn[c].res.status = 302
    /\ Contains(EffectiveReturnPath(c), {"&"})

EmptyList200 == Response(200, ListBody(<<>>), Nothing, Nothing)

\* C8: a discovery request for a thumbprint without tunnels when the
\* registry is asked ends with status 200 and an empty list, and no
\* authenticator is built or called on it.
C8_NoTunnelsIsEmptyList ==
  /\ [](\A c \in Conns :
          (Done(c) /\ IsDiscovery(c) /\ conn[c].tunnels = <<>>)
            => (conn[c].res = EmptyList200 /\ NoAuthNoSession(conn[c])))
  /\ [][\A c \in Conns :
          (/\ conn[c].pc = "awaitTunnels"
           /\ conn'[c] # conn[c]
           /\ ~\E e \in activeTunnelStore : ThumbprintOf[e] = conn[c].url.profileId)
            => (/\ conn'[c].pc = "done"
                /\ conn'[c].res = EmptyList200
                /\ NoAuthNoSession(conn'[c]))]_vars

\* The empty list for a thumbprint that other tenants' tunnels surround.
C8_Witness ==
  \E c \in Conns :
    /\ Done(c) /\ IsDiscovery(c)
    /\ conn[c].res = EmptyList200
    /\ activeTunnelStore # {}

PublicFields == {"envId", "hostname", "access", "meta"}

\* C9: a discovery request that found tunnels returns tunnel data only
\* after the authenticator built from the first tunnel found answered
\* isAuthenticated = true; on false it ends with 401 and no tunnel data; and
\* every entry returned has the fields envId, hostname, access and meta of
\* its tunnel and no other field.
C9_DiscoveryNeedsAuthentication ==
  \A c \in Conns :
    (Done(c) /\ IsDiscovery(c)) =>
      /\ conn[c].res.body.list # <<>> =>
           /\ Verdict(c, TRUE)
           /\ conn[c].authFrom = <<conn[c].tunnels[1]>>
           /\ conn[c].res.status = 200
      /\ (Len(conn[c].tunnels) >= 1 /\ Verdict(c, FALSE)) =>
           conn[c].res = Response(401, TextBody("Unauthenticated"), Nothing, Nothing)
      /\ (Len(conn[c].tunnels) >= 1 /\ Verdict(c, TRUE)) =>
           /\ Len(conn[c].res.body.list) = Len(conn[c].tunnels)
           /\ \A i \in DOMAIN conn[c].tunnels :
                LET shown == conn[c].res.body.list[i]
                    t     == conn[c].tunnels[i]
                IN  /\ DOMAIN shown = PublicFields
                    /\ shown.envId = t.envId
                    /\ shown.hostname = t.hostname
                    /\ shown.access = t.access
                    /\ shown.meta = t.meta

\* Two tunnels of one tenant returned.
C9_Witness ==
  \E c \in Conns :
    /\ Done(c) /\ IsDiscovery(c) /\ Verdict(c, TRUE)
    /\ Len(conn[c].res.body.list) = 2

ControlPlaneHosts == {Some(authHostname), Some(apiHostname)}

\* C10: a request is offered to proxy.routeRequest and never to
\* proxy.routeUpgrade, and no upgrade handler is invoked for it; an upgrade
\* is offered to proxy.routeUpgrade and never to proxy.routeRequest, and
\* neither a request handler nor the control-plane handler is invoked for
\* it.  On a host classified as tunnel traffic each is offered once.
C10_NoCrossDispatch ==
  \A c \in Conns :
    /\ conn[c].kind = "request" =>
         /\ conn[c].routeUpgrade = 0
         /\ "proxyUpgradeHandler" \notin conn[c].handledBy
         /\ conn[c].classified = "tunnel-traffic" => conn[c].routeRequest = 1
    /\ conn[c].kind = "upgrade" =>
         /\ conn[c].routeRequest = 0
         /\ conn[c].handledBy \subseteq {"proxyUpgradeHandler"}
         /\ conn[c].classified = "tunnel-traffic" => conn[c].routeUpgrade = 1

\* A request still in its handler and an upgrade, with the same host and
\* URL, each claimed by its own proxy route.
C10_Witness ==
  /\ conn["c1"].kind = "request"
  /\ conn["c1"].pc = "awaitTunnel"
  /\ conn["c2"].kind = "upgrade"
  /\ conn["c2"].handledBy = {"proxyUpgradeHandler"}
  /\ conn["c1"].host = conn["c2"].host
  /\ conn["c1"].url = conn["c2"].url
  /\ conn["c1"].host \notin ControlPlaneHosts

\* The proxy was asked about the exchange on c and returned no handler.
ProxyDeclined(c) ==
  /\ conn[c].routeRequest + conn[c].routeUpgrade = 1
  /\ ~conn[c].thrown
  /\ conn[c].handledBy \cap {"proxyRequestHandler", "proxyUpgradeHandler"} = {}

\* C11: an upgrade on a host that is no control-plane host, which
\* proxy.routeUpgrade declines, ends with 'Not found' written to the raw
\* socket and the socket closed; the control-plane handler is not invoked
\* for it and no HTTP response is produced.
C11_DeclinedUpgradeEndsSocket ==
  \A c \in Conns :
    (/\ conn[c].kind = "upgrade"
     /\ conn[c].host \notin ControlPlaneHosts
     /\ conn[c].routeUpgrade = 1
     /\ ProxyDeclined(c))
      => (/\ Done(c)
          /\ conn[c].socket = "Not found"
          /\ conn[c].handledBy = {}
          /\ conn[c].res = NoResponse)

\* A declined upgrade to a tenant's tunnel hostname, on a URL the
\* control-plane router knows.
C11_Witness ==
  \E c \in Conns :
    /\ conn[c].kind = "upgrade"
    /\ conn[c].host = Some(<<"e1", ".">> \o baseHostname)
    /\ conn[c].url.route = "healthz"
    /\ ProxyDeclined(c)
    /\ conn[c].socket = "Not found"

\* C12: on a request or an upgrade whose host is auth.<base> or api.<base>
\* neither proxy.routeRequest nor proxy.routeUpgrade is called; the
\* request is handled by the control-plane handler alone, and the upgrade
\* by no proxy handler.
C12_ControlPlaneBypassesProxy ==
  \A c \in Conns :
    (conn[c].kind # None /\ conn[c].host \in ControlPlaneHosts) =>
      /\ conn[c].routeRequest = 0
      /\ conn[c].routeUpgrade = 0
      /\ ~conn[c].thrown
      /\ conn[c].kind = "request" => conn[c].handledBy = {"controlPlane"}
      /\ conn[c].kind = "upgrade" => conn[c].handledBy = {}

\* A request on api.<base> answered by the control-plane handler.
C12_Witness ==
  \E c \in Conns :
    /\ conn[c].kind = "request"
    /\ conn[c].host = Some(apiHostname)
    /\ Done(c)
    /\ conn[c].res.status = 200

\* C13: a request on a host that is no control-plane host is handled by
\* exactly one handler: by the proxy's handler if proxy.routeRequest
\* produced one, by the control-plane handler otherwise.
C13_ExactlyOneHandler ==
  \A c \in Conns :
    (conn[c].kind = "request" /\ conn[c].host \notin ControlPlaneHosts) =>
      \/ conn[c].handledBy = {"proxyRequestHandler"}
      \/ conn[c].handledBy = {"controlPlane"}

\* C14 as stated: for every Host header value, absent included, the
\* classifier answers control-plane if and only if the value equals
\* auth.<base> or api.<base>; every other value, one with a port suffix
\* included, is tunnel traffic; and the classifier always answers.
C14_ControlPlaneIffExactHost ==
  \A c \in Conns :
    conn[c].kind # None =>
      /\ conn[c].classified \in {"control-plane", "tunnel-traffic"}
      /\ conn[c].classified = "control-plane" <=> conn[c].host \in ControlPlaneHosts

\* host is name, or name followed by ":" and anything.
IsNameWithOptionalPort(host, name) ==
  /\ IsSome(host)
  /\ Len(The(host)) >= Len(name)
  /\ SubSeq(The(host), 1, Len(name)) = name
  /\ (Len(The(host)) = Len(name) \/ The(host)[Len(name) + 1] = ":")

\* C14: for every Host header value, absent included, the classifier
\* answers control-plane if and only if the value, with its port suffix
\* removed, equals auth.<base> or api.<base>; every other value, a missing
\* header and a malformed string included, is tunnel traffic; and the
\* classifier always answers.
C14_ControlPlaneIffHostWithoutPort ==
  \A c \in Conns :
    conn[c].kind # None =>
      /\ conn[c].classified \in {"control-plane", "tunnel-traffic"}
      /\ conn[c].classified = "control-plane" <=>
           \/ IsNameWithOptionalPort(conn[c].host, authHostname)
           \/ IsNameWithOptionalPort(conn[c].host, apiHostname)

\* auth.<base>:443 was classified as control-plane.
C14_Witness ==
  \E c \in Conns :
    /\ conn[c].kind # None
    /\ conn[c].host = Some(authHostname \o <<":", "443">>)
    /\ conn[c].classified = "control-plane"

\* C15: no error leaves the listeners, and an exchange the proxy was asked
\* about and produced no handler for, by declining or by raising an error,
\* takes the decline path: the control-plane handler for a request, 'Not
\* found' and a closed socket for an upgrade.
C15_RoutingNeverThrows ==
  \A c \in Conns :
    /\ ~conn[c].thrown
    /\ (/\ conn[c].routeRequest + conn[c].routeUpgrade >= 1
        /\ conn[c].handledBy \cap {"proxyRequestHandler", "proxyUpgradeHandler"} = {})
         => (/\ conn[c].kind = "request" => "controlPlane" \in conn[c].handledBy
             /\ conn[c].kind = "upgrade" => conn[c].socket = "Not found")

\* C16: in a login request the session read and written is the one keyed
\* by the thumbprint of the tunnel resolved for the request's env, and the
\* authenticator is built from that tunnel; so the claims a session holds,
\* the claims a request finds in its session and the claims it stages were
\* all verified against the key the session is keyed by.
C16_SessionScopedToThumbprint ==
  /\ \A c \in Conns :
        (IsLogin(c) /\ IsSome(conn[c].tunnel)) =>
          /\ <<The(conn[c].tunnel).envId>> = The(conn[c].url.env)
          /\ conn[c].sessionKey = The(conn[c].tunnel).publicKeyThumbprint
          /\ \A i \in DOMAIN conn[c].authFrom : conn[c].authFrom[i] = The(conn[c].tunnel)
          /\ IsSome(conn[c].sessionAtOpen) =>
               The(conn[c].sessionAtOpen).verifiedBy = conn[c].sessionKey
          /\ \A i \in DOMAIN conn[c].setCalls :
               conn[c].setCalls[i].verifiedBy = conn[c].sessionKey
  /\ \A t \in Thumbprints :
        IsSome(sessionStore[t]) => The(sessionStore[t]).verifiedBy = t

\* The browser holds a session for each of two tenants, and a login of the
\* second tenant is answered from its own session while a login of the
\* first is still with its authenticator.
C16_Witness ==
  /\ IsSome(sessionStore["tB"])
  /\ IsLogin("c1") /\ conn["c1"].sessionKey = "tA" /\ conn["c1"].pc = "awaitAuth"
  /\ IsLogin("c2") /\ conn["c2"].sessionKey = "tB"
  /\ IsSome(conn["c2"].sessionAtOpen) /\ Done("c2")

\* The five terminal outcomes of a login request, by its response.
LoginOutcomes(c) ==
  LET res == conn[c].res
  IN  {o \in {"400", "404", "401", "identityProvider", "tenant"} :
         CASE o = "400" -> res = Response(400, ErrorBody("returnPath must be a relative path"),
                                          Nothing, Nothing)
           [] o = "404" -> res = NotFound404
           [] o = "401" -> res = Response(401, ErrorBody("Unauthorized"), Nothing, Nothing)
           [] o = "identityProvider" ->
                /\ res.status = 302
                /\ IsSome(saasBaseUrl)
                /\ UrlOrigin(The(res.location)) = UrlOrigin(The(saasBaseUrl))
                /\ UrlPathname(The(res.location)) = <<"/", "api", "/", "auth", "/", "login">>
           [] o = "tenant" ->
                /\ res.status = 302
                /\ UrlHostname(The(res.location)) = TenantHostname(c)}

\* C17: provided every collaborator call returns, every login request
\* reaches a terminal outcome, which is exactly one of 400 bad returnPath,
\* 404 unknown env, 401 unauthorized, redirect to the identity provider and
\* redirect to the tenant; once it has, no further step of the request
\* runs; and the request asks the registry, calls the authenticator, stages
\* claims and saves the session at most once each.
C17_OneTerminalOutcomeNoRetry ==
  /\ [](\A c \in Conns :
          (Done(c) /\ IsLogin(c)) => Cardinality(LoginOutcomes(c)) = 1)
  /\ [](\A c \in Conns :
          IsLogin(c) => (/\ conn[c].lookups <= 1
                         /\ conn[c].authCalls <= 1
                         /\ Len(conn[c].setCalls) <= 1
                         /\ conn[c].saveCalls <= 1))
  /\ [][\A c \in Conns :
          (Done(c) /\ IsLogin(c)) => (conn'[c] = conn[c] \/ conn'[c] = Idle)]_vars
  /\ \A c \in Conns : (IsLogin(c) /\ ~Done(c)) ~> Done(c)

\* The exchange on c is with a collaborator.
InFlight(c) == conn[c].pc \notin {"idle", "done"}

\* C18: whatever happens to the exchange on the other connection, a login
\* held for ever in its registry lookup or its authenticator included,
\* every request on c2 reaches its terminal outcome and an upgrade is
\* answered as it arrives; and a step of one exchange leaves the other
\* exchange as it was.
C18_StalledLoginStallsNoOther ==
  /\ InFlight("c2") ~> Done("c2")
  /\ [](conn["c2"].kind = "upgrade" => Done("c2"))
  /\ [][\A c \in Conns :
          conn'[c] # conn[c] => \A d \in Conns \ {c} : conn'[d] = conn[d]]_vars

\* A login on c1 is with its authenticator while a login that c2 took on
\* has got its redirect.
C18_Witness ==
  /\ IsLogin("c1") /\ conn["c1"].pc = "awaitAuth"
  /\ IsLogin("c2") /\ Done("c2") /\ Verdict("c2", TRUE)
  /\ conn["c2"].res.status = 302

\* The login request on c ended with a redirect to its tenant's hostname.
RedirectedToTenant(c) ==
  /\ Done(c)
  /\ IsLogin(c)
  /\ conn[c].res.status = 302
  /\ UrlHostname(The(conn[c].res.location)) = TenantHostname(c)

\* C19: a login request ends with the redirect to the tenant's hostname
\* only if the session it opened already held claims or its authenticator
\* answered isAuthenticated = true; a request with a verdict of not
\* authenticated and a session without claims never ends with it.
C19_RedirectNeedsClaimsOrVerdict ==
  \A c \in Conns :
    /\ RedirectedToTenant(c) => (IsSome(conn[c].sessionAtOpen) \/ Verdict(c, TRUE))
    /\ (Done(c) /\ IsLogin(c) /\ Verdict(c, FALSE) /\ ~IsSome(conn[c].sessionAtOpen))
         => ~RedirectedToTenant(c)

\* A redirect to /x on the tenant's hostname, granted on the session alone.
C19_Witness ==
  \E c \in Conns :
    /\ RedirectedToTenant(c)
    /\ IsSome(conn[c].sessionAtOpen)
    /\ conn[c].authCalls = 0
    /\ UrlPathname(The(conn[c].res.location)) = <<"/", "x">>

\* The exchange on c staged or saved claims.
TouchedSession(rec) ==
  rec.setCalls # <<>> \/ rec.saveCalls # 0 \/ rec.save # None

\* C20: session.set and session.save are called only in a login request
\* whose authenticator answered isAuthenticated = true, once each and with
\* the claims of that verdict; and the session store changes only by such a
\* request, only in the session of its tunnel's thumbprint and only to
\* those claims.
C20_OnlyAuthenticatedLoginWrites ==
  /\ [](\A c \in Conns :
          TouchedSession(conn[c]) =>
            /\ IsLogin(c)
            /\ Verdict(c, TRUE)
            /\ conn[c].setCalls = <<The(The(conn[c].verdict).claims)>>
            /\ conn[c].saveCalls = 1)
  /\ [][\A t \in Thumbprints :
          sessionStore'[t] # sessionStore[t] =>
            \E c \in Conns :
              /\ IsLogin(c)
              /\ conn'[c].sessionKey = t
              /\ IsSome(conn'[c].verdict)
              /\ The(conn'[c].verdict).isAuthenticated
              /\ sessionStore'[t] = The(conn'[c].verdict).claims]_vars

\* A discovery request got its tunnels and a login request on the other
\* connection saved its claims.
C20_Witness ==
  \E c, d \in Conns :
    /\ Done(c) /\ IsDiscovery(c) /\ Verdict(c, TRUE)
    /\ Done(d) /\ IsLogin(d) /\ Verdict(d, TRUE)
    /\ sessionStore[conn[d].sessionKey] = The(conn[d].verdict).claims


=============================================================================
